---- MODULE Spec2Model ----
(***************************************************************************)
(* Model of injectproxy/routes.go: the tenant-scope extraction of          *)
(* routes.ServeHTTP, the routing table of NewRoutes, enforceMethods and    *)
(* the query, series, federate and noop handlers.                          *)
(*                                                                         *)
(* Character strings (tenant identifiers, matcher values) are sequences of *)
(* one-character strings; names (label, methods, path segments) are atoms. *)
(* A path is the sequence of its segments: "/api/v2/silence/" is           *)
(* <<"api","v2","silence","">> (a trailing "" is the trailing slash).      *)
(***************************************************************************)
EXTENDS Integers, Sequences, FiniteSets, TLC

VARIABLES labelLocation, pc, req, w, upstream, client

vars == <<labelLocation, pc, req, w, upstream, client>>

(***************************************************************************)
(* Bounds                                                                  *)
(***************************************************************************)
\* longest raw tenant identifier, in characters
MaxLen == 3
\* most match[] values a request carries
MaxMatch == 2

(***************************************************************************)
(* Strings                                                                 *)
(***************************************************************************)
Alphabet == {"a", "b", ".", "|", ","}

RECURSIVE StringsUpTo(_, _)
StringsUpTo(A, n) ==
  IF n = 0 THEN {<<>>}
  ELSE LET S == StringsUpTo(A, n - 1)
       IN S \cup {Append(s, c) : s \in {t \in S : Len(t) = n - 1}, c \in A}

RECURSIVE SeqsUpTo(_, _)
SeqsUpTo(S, n) ==
  IF n = 0 THEN {<<>>}
  ELSE LET P == SeqsUpTo(S, n - 1)
       IN P \cup {Append(s, e) : s \in {t \in P : Len(t) = n - 1}, e \in S}

Range(s) == {s[i] : i \in 1..Len(s)}

\* a split that drops the empty segments, as strings.FieldsFunc does
RECURSIVE Split_dropEmpty(_, _)
Split_dropEmpty(s, sep) ==
  IF s = <<>> THEN <<>>
  ELSE IF \A i \in 1..Len(s) : s[i] # sep THEN <<s>>
  ELSE LET i == CHOOSE k \in 1..Len(s) :
                  s[k] = sep /\ \A j \in 1..(k - 1) : s[j] # sep
           rest == Split_dropEmpty(SubSeq(s, i + 1, Len(s)), sep)
       IN IF i = 1 THEN rest ELSE <<SubSeq(s, 1, i - 1)>> \o rest

\* strings.Split(s, sep) for a one-character separator
RECURSIVE Split(_, _)
Split(s, sep) ==
  IF \A i \in 1..Len(s) : s[i] # sep THEN <<s>>
  ELSE LET i == CHOOSE k \in 1..Len(s) :
                  s[k] = sep /\ \A j \in 1..(k - 1) : s[j] # sep
       IN <<SubSeq(s, 1, i - 1)>> \o Split(SubSeq(s, i + 1, Len(s)), sep)

\* strings.Join(elems, sep)
RECURSIVE Join(_, _)
Join(elems, sep) ==
  IF Len(elems) = 0 THEN <<>>
  ELSE IF Len(elems) = 1 THEN elems[1]
  ELSE elems[1] \o <<sep>> \o Join(Tail(elems), sep)

(***************************************************************************)
(* Label matchers                                                          *)
(***************************************************************************)
\* the configured label name (routes.label)
Label == "tenant"

MatchEqual == "="
MatchRegexp == "=~"

Matcher(name, type, value) == [Name |-> name, Type |-> type, Value |-> value]

RegexpPrefix == <<"^", "(", "?", ":">>
RegexpSuffix == <<")", "$">>

\* One alternative of a pattern made of literal characters and ".":
\* it matches x when x has its length and agrees on every literal.
AltMatches(alt, x) ==
  /\ Len(alt) = Len(x)
  /\ \A i \in 1..Len(alt) : alt[i] = "." \/ alt[i] = x[i]

\* Whether the anchored pattern "^(?:" body ")$" matches x, for bodies over
\* literal characters, "." and "|".
RegexpMatches(pattern, x) ==
  LET body == SubSeq(pattern, Len(RegexpPrefix) + 1,
                     Len(pattern) - Len(RegexpSuffix))
      alts == Split(body, "|")
  IN \E i \in 1..Len(alts) : AltMatches(alts[i], x)

\* labels.Matcher.Matches
Matches(m, x) ==
  IF m.Type = MatchEqual THEN m.Value = x ELSE RegexpMatches(m.Value, x)

\* the value stored in the request context under keyLabel: <<>> when the key
\* is absent, <<lvalues>> when it is set
withLabelValue(ctx, lvalues) == <<lvalues>>

mustLabelValue(ctx) ==
  IF ctx = <<>> THEN [panic |-> TRUE, lvalues |-> <<>>]
  ELSE IF Len(ctx[1]) = 0 THEN [panic |-> TRUE, lvalues |-> <<>>]
  ELSE [panic |-> FALSE, lvalues |-> ctx[1]]

NoMatcher == Matcher("", MatchEqual, <<>>)

\* createLabelMatcher joining the values as its log line does, with ","
createLabelMatcher_commaJoin(ctx, label) ==
  LET v == mustLabelValue(ctx)
      lvalues == v.lvalues
  IN IF v.panic THEN [panic |-> TRUE, m |-> NoMatcher]
     ELSE IF Len(lvalues) = 1
       THEN [panic |-> FALSE, m |-> Matcher(label, MatchEqual, lvalues[1])]
     ELSE [panic |-> FALSE,
           m |-> Matcher(label, MatchRegexp,
                         RegexpPrefix \o Join(lvalues, ",") \o RegexpSuffix)]

createLabelMatcher(ctx, label) ==
  LET v == mustLabelValue(ctx)
      lvalues == v.lvalues
  IN IF v.panic THEN [panic |-> TRUE, m |-> NoMatcher]
     ELSE IF Len(lvalues) = 1
       THEN [panic |-> FALSE, m |-> Matcher(label, MatchEqual, lvalues[1])]
     ELSE IF Len(lvalues) > 1
       THEN [panic |-> FALSE,
             m |-> Matcher(label, MatchRegexp,
                           RegexpPrefix \o Join(lvalues, "|") \o RegexpSuffix)]
     ELSE [panic |-> TRUE, m |-> NoMatcher]

(***************************************************************************)
(* Query expressions: the parser, the printer and the enforcer             *)
(***************************************************************************)
\* AST nodes: selector, binary expression, aggregation, number literal
Node(kind, name, ms, args) ==
  [kind |-> kind, name |-> name, ms |-> ms, args |-> args]
Sel(name, ms) == Node("sel", name, ms, <<>>)
Bin(l, r) == Node("bin", "+", <<>>, <<l, r>>)
Agg(e) == Node("agg", "sum", <<>>, <<e>>)
Num == Node("num", "1", <<>>, <<>>)
\* what an unparseable text and the empty text stand for
Garbage == Node("bad", "", <<>>, <<>>)
Nothing == Node("empty", "", <<>>, <<>>)

\* A query text: the expression it denotes, and whether it is written the
\* way the printer writes it (canon) or otherwise (spacing, label order).
Text(src, canon) == [src |-> src, canon |-> canon]
EmptyText == Text(Nothing, TRUE)

\* parser.ParseExpr
ParseExpr(text) ==
  IF text.src.kind \in {"bad", "empty"}
    THEN [err |-> TRUE, expr |-> Num]
    ELSE [err |-> FALSE, expr |-> text.src]

\* Expr.String(): the printer always writes the canonical form
String(expr) == Text(expr, TRUE)

\* "{" + matcher.String() + "}": the selector without a metric name that
\* carries the matcher alone, as the printer would write it
Braced(m) == Text(Sel("", <<m>>), TRUE)

\* Enforcer on one selector's matcher list
EnforceMatchers(ms, m) ==
  LET same == {i \in 1..Len(ms) : ms[i].Name = m.Name}
  IN IF same = {} THEN [err |-> FALSE, ms |-> Append(ms, m)]
     ELSE IF \A i \in same : ms[i] = m THEN [err |-> FALSE, ms |-> ms]
     ELSE [err |-> TRUE, ms |-> ms]

RECURSIVE EnforceNode(_, _)
EnforceNode(expr, m) ==
  IF expr.kind = "sel" THEN
    LET r == EnforceMatchers(expr.ms, m)
    IN [err |-> r.err, expr |-> [expr EXCEPT !.ms = r.ms]]
  ELSE
    LET kids == [i \in 1..Len(expr.args) |-> EnforceNode(expr.args[i], m)]
    IN [err |-> \E i \in 1..Len(kids) : kids[i].err,
        expr |-> [expr EXCEPT !.args = [i \in 1..Len(kids) |-> kids[i].expr]]]

\* every selector of the expression
RECURSIVE Selectors(_)
Selectors(expr) ==
  IF expr.kind = "sel" THEN {expr}
  ELSE UNION {Selectors(expr.args[i]) : i \in 1..Len(expr.args)}

(***************************************************************************)
(* Requests                                                                *)
(***************************************************************************)
\* url.Values / http.Header operations on the value list of one key
Get(values) == IF values = <<>> THEN <<>> ELSE values[1]
Del(values) == <<>>
\* Set mistaken for Add: the values already there are kept
Set_asAdd(values, v) == Append(values, v)
Set(values, v) == <<v>>
\* Add that puts the new value first
Add_front(values, v) == <<v>> \o values
Add(values, v) == Append(values, v)

NoBody == [query |-> <<>>, match |-> <<>>]

\* A request: its method and path, the values of the header named by the
\* label, the URL query parameters (the label, query, match[]), the
\* form-encoded body and the value its context holds under keyLabel.
Request(method, path, header, label, query, match, body) ==
  [method |-> method, path |-> path, header |-> header,
   url |-> [label |-> label, query |-> query, match |-> match],
   body |-> body, ctx |-> <<>>]

\* Request.ParseForm: the body of a POST is read and its values come first
Form(r) ==
  IF r.method = "POST"
    THEN [query |-> r.body.query \o r.url.query,
          match |-> r.body.match \o r.url.match]
    ELSE [query |-> r.url.query, match |-> r.url.match]

\* the request once ParseForm has read the body
Parsed(r) == IF r.method = "POST" THEN [r EXCEPT !.body = NoBody] ELSE r

\* Request.FormValue: the first value, "" when there is none
FormValue(values) == IF values = <<>> THEN EmptyText ELSE values[1]

(***************************************************************************)
(* Responses                                                               *)
(***************************************************************************)
StatusOK == 200
StatusMovedPermanently == 301
StatusBadRequest == 400
StatusNotFound == 404

\* what the upstream may answer to a forwarded request
UpstreamStatuses == {200, 503}

\* The outcome of serving a request: the status written (0: none), the
\* parameter the error message names, the handler of the routing table that
\* ran, the requests handed to the reverse proxy, whether the goroutine
\* panicked, and the context value the request carried into the router.
Outcome(status, naming, handler, fwd, panic, ctx) ==
  [status |-> status, naming |-> naming, handler |-> handler,
   fwd |-> fwd, panic |-> panic, ctx |-> ctx]

NoOutcome == Outcome(0, "", "", <<>>, FALSE, <<>>)

\* r.handler.ServeHTTP(w, req): the reverse proxy sends req upstream and
\* copies the upstream's status
Forward(h, r, up) == Outcome(up, "", h, <<r>>, FALSE, r.ctx)
\* the handler returns without writing anything
Return(h, r) == Outcome(0, "", h, <<>>, FALSE, r.ctx)
Panic(h, r) == Outcome(0, "", h, <<>>, TRUE, r.ctx)
\* http.NotFound
NotFound(r) == Outcome(StatusNotFound, "", "", <<>>, FALSE, r.ctx)
\* http.RedirectHandler(url, StatusMovedPermanently)
Redirect(r) == Outcome(StatusMovedPermanently, "", "", <<>>, FALSE, r.ctx)

(***************************************************************************)
(* Handlers                                                                *)
(***************************************************************************)
noop(r, up) == Forward("noop", r, up)

\* query that prints the parsed expression back without enforcing it
query_unenforced(r, up) ==
  LET p == ParseExpr(FormValue(Form(r).query))
      q == Set(r.url.query, String(p.expr))
  IN IF p.err THEN Return("query", r)
     ELSE Forward("query", [Parsed(r) EXCEPT !.url.query = q], up)

query(r, up) ==
  LET p == ParseExpr(FormValue(Form(r).query))
      c == createLabelMatcher(r.ctx, Label)
      e == EnforceNode(p.expr, c.m)
      q == Set(r.url.query, String(e.expr))
  IN IF p.err THEN Return("query", r)
     ELSE IF c.panic THEN Panic("query", r)
     ELSE IF e.err THEN Return("query", r)
     ELSE Forward("query", [Parsed(r) EXCEPT !.url.query = q], up)

\* the loop of series over the remaining matches, q being the match[]
\* values added so far
RECURSIVE seriesLoop(_, _, _)
seriesLoop(matches, ctx, q) ==
  IF matches = <<>> THEN [end |-> "ok", q |-> q]
  ELSE LET p == ParseExpr(matches[1])
           c == createLabelMatcher(ctx, Label)
           e == EnforceNode(p.expr, c.m)
       IN IF p.err THEN [end |-> "return", q |-> q]
          ELSE IF c.panic THEN [end |-> "panic", q |-> q]
          ELSE IF e.err THEN [end |-> "return", q |-> q]
          ELSE seriesLoop(Tail(matches), ctx, Add(q, String(e.expr)))

series(r, up) ==
  LET matches == Form(r).match
      l == seriesLoop(matches, r.ctx, Del(r.url.match))
  IN IF l.end = "return" THEN Return("series", r)
     ELSE IF l.end = "panic" THEN Panic("series", r)
     ELSE Forward("series", [Parsed(r) EXCEPT !.url.match = l.q], up)

federate(r, up) ==
  LET c == createLabelMatcher(r.ctx, Label)
      q == Set(r.url.match, Braced(c.m))
  IN IF c.panic THEN Panic("federate", r)
     ELSE Forward("federate", [r EXCEPT !.url.match = q], up)

\* silence listing/creation and deletion: passed through to the upstream
silences(r, up) == Forward("silences", r, up)
deleteSilence(r, up) == Forward("deleteSilence", r, up)

\* h is the outcome of calling the wrapped handler on the request
enforceMethods(h, methods, r) ==
  IF r.method \in methods THEN h ELSE NotFound(r)

(***************************************************************************)
(* The routing table                                                       *)
(***************************************************************************)
Federate == <<"federate">>
Query == <<"api", "v1", "query">>
QueryRange == <<"api", "v1", "query_range">>
Series == <<"api", "v1", "series">>
Labels == <<"api", "v1", "labels">>
LabelValues == <<"api", "v1", "label", "__name__", "values">>
Alerts == <<"api", "v1", "alerts">>
Rules == <<"api", "v1", "rules">>
Silences == <<"api", "v2", "silences">>
SilencesTree == <<"api", "v2", "silences", "">>
SilenceTree == <<"api", "v2", "silence", "">>

\* the patterns NewRoutes registers
Patterns ==
  {Federate, Query, QueryRange, Series, Labels, LabelValues, Alerts, Rules,
   Silences, SilencesTree, SilenceTree}

\* a routing table that lists every method for every pattern
Methods_all(pattern) == {"GET", "POST", "DELETE"}

\* the methods NewRoutes lists for a pattern
Methods(pattern) ==
  CASE pattern = Federate -> {"GET"}
    [] pattern \in {Query, QueryRange, Series} -> {"GET", "POST"}
    [] pattern \in {Labels, LabelValues, Alerts, Rules} -> {"GET"}
    [] pattern \in {Silences, SilencesTree} -> {"GET", "POST"}
    [] pattern = SilenceTree -> {"DELETE"}
    [] OTHER -> {}

\* the handler NewRoutes registers under a pattern
NewRoutes(pattern, r, up) ==
  CASE pattern = Federate ->
         enforceMethods(federate(r, up), Methods(pattern), r)
    [] pattern \in {Query, QueryRange} ->
         enforceMethods(query(r, up), Methods(pattern), r)
    [] pattern = Series ->
         enforceMethods(series(r, up), Methods(pattern), r)
    [] pattern \in {Labels, LabelValues, Alerts, Rules} ->
         enforceMethods(noop(r, up), Methods(pattern), r)
    [] pattern \in {Silences, SilencesTree} ->
         enforceMethods(silences(r, up), Methods(pattern), r)
    [] pattern = SilenceTree ->
         enforceMethods(deleteSilence(r, up), Methods(pattern), r)
    [] OTHER -> NotFound(r)

\* a pattern ending in a slash names the subtree under it
IsTree(pattern) == pattern[Len(pattern)] = ""

\* ServeMux.match: the exact pattern, else the longest subtree pattern the
\* path lies under; <<>> when there is none
muxMatch(path) ==
  IF path \in Patterns THEN path
  ELSE LET under == {p \in Patterns :
                       /\ IsTree(p)
                       /\ Len(path) >= Len(p)
                       /\ SubSeq(path, 1, Len(p) - 1) = SubSeq(p, 1, Len(p) - 1)}
       IN IF under = {} THEN <<>>
          ELSE CHOOSE p \in under : \A o \in under : Len(o) <= Len(p)

\* cleanPath: empty segments other than the trailing one are dropped
RECURSIVE cleanPath(_)
cleanPath(path) ==
  IF Len(path) <= 1 THEN path
  ELSE IF path[1] = "" THEN cleanPath(Tail(path))
  ELSE <<path[1]>> \o cleanPath(Tail(path))

\* ServeMux.shouldRedirect: the path is not registered but the path with a
\* trailing slash is
shouldRedirect(path) ==
  /\ path \notin Patterns
  /\ path # <<>>
  /\ path[Len(path)] # ""
  /\ Append(path, "") \in Patterns

\* ServeMux.ServeHTTP
muxServeHTTP(r, up) ==
  LET path == cleanPath(r.path)
      pattern == muxMatch(r.path)
  IN IF shouldRedirect(path) THEN Redirect(r)
     ELSE IF path # r.path THEN Redirect(r)
     ELSE IF pattern = <<>> THEN NotFound(r)
     ELSE NewRoutes(pattern, r, up)

(***************************************************************************)
(* routes.ServeHTTP                                                        *)
(***************************************************************************)
\* http.Error(w, "Bad request. The %q query parameter must be provided.", 400)
BadRequest(label) == Outcome(StatusBadRequest, label, "", <<>>, FALSE, <<>>)

lvalueOf(loc, r) ==
  IF loc = "header" THEN Get(r.header) ELSE Get(r.url.label)

\* ServeHTTP without the check of the empty value
routesServeHTTP_unchecked(loc, r, up) ==
  LET lvalue == lvalueOf(loc, r)
      lvalues == Split(lvalue, ",")
      r2 == [r EXCEPT !.ctx = withLabelValue(r.ctx, lvalues),
                      !.url.label = Del(r.url.label)]
  IN muxServeHTTP(r2, up)

routesServeHTTP(loc, r, up) ==
  LET lvalue == lvalueOf(loc, r)
      lvalues == Split(lvalue, ",")
      r2 == [r EXCEPT !.ctx = withLabelValue(r.ctx, lvalues),
                      !.url.label = Del(r.url.label)]
  IN IF lvalue = <<>> THEN BadRequest(Label)
     ELSE muxServeHTTP(r2, up)

(***************************************************************************)
(* The requests served                                                     *)
(***************************************************************************)
HTTPMethods == {"GET", "POST", "DELETE"}

\* the registered paths, paths under the two subtrees, a subtree root
\* without its slash, an unregistered path and a path with a doubled slash
Paths ==
  Patterns \cup
  {<<"api", "v2", "silences", "x">>, <<"api", "v2", "silence", "x">>,
   <<"api", "v2", "silence">>, <<"other">>, <<"", "federate">>}

TenantA == Matcher(Label, MatchEqual, <<"a">>)
JobB == Matcher("job", MatchEqual, <<"b">>)
Up == Sel("up", <<>>)

\* the query texts clients send: unparseable, a bare selector not written
\* as the printer writes it, a selector that names the tenant label, and an
\* aggregation over two selectors
Texts ==
  {Text(Garbage, FALSE), Text(Up, FALSE), Text(Sel("up", <<TenantA>>), TRUE),
   Text(Agg(Bin(Up, Sel("down", <<JobB>>))), TRUE)}

\* the value lists of the label in one location: absent, or one raw value
Located(raws) == {<<>>} \cup {<<v>> : v \in raws}

\* the parameters a request carries for its path: query on the query
\* endpoints, match[] on series and federate; in the URL, or for a POST in
\* the body, or in both (a query in each, the first match[] in the body)
Params(method, path) ==
  LET qs == IF path \in {Query, QueryRange} THEN SeqsUpTo(Texts, 1) ELSE {<<>>}
      ms == IF path \in {Series, Federate}
              THEN SeqsUpTo(Texts, MaxMatch) ELSE {<<>>}
      inURL == {[query |-> q, match |-> m, body |-> NoBody] : q \in qs, m \in ms}
      inBody == {[query |-> <<>>, match |-> <<>>,
                  body |-> [query |-> q, match |-> m]] : q \in qs, m \in ms}
      inBoth ==
        {[query |-> q, match |-> <<>>, body |-> [query |-> b, match |-> <<>>]] :
           q \in qs \ {<<>>}, b \in qs \ {<<>>}} \cup
        {[query |-> <<>>, match |-> Tail(m),
          body |-> [query |-> <<>>, match |-> <<m[1]>>]] :
           m \in {l \in ms : Len(l) >= 2}}
  IN IF method = "POST" THEN inURL \cup inBody \cup inBoth ELSE inURL

RequestsWith(methods, paths, headers, labels) ==
  UNION {{Request(method, path, h, l, p.query, p.match, p.body) :
            h \in headers, l \in labels, p \in Params(method, path)} :
         method \in methods, path \in paths}

\* every method and path, with the usual tenant identifiers
RoutedRequests ==
  RequestsWith(HTTPMethods, Paths,
               Located({<<>>, <<"a">>, <<"a", ",", "b">>}),
               Located({<<>>, <<"a">>, <<"a", ",", "b">>}))

\* every tenant identifier of at most MaxLen characters, in either
\* location, on the endpoints that build a matcher from it
TenantRequests ==
  LET raws == Located(StringsUpTo(Alphabet, MaxLen))
      plain == {Request("GET", Federate, <<>>, <<>>, <<>>, <<>>, NoBody),
                Request("GET", Query, <<>>, <<>>, <<Text(Up, FALSE)>>, <<>>,
                        NoBody)}
  IN {[r EXCEPT !.header = v] : r \in plain, v \in raws} \cup
     {[r EXCEPT !.url.label = v] : r \in plain, v \in raws}

Requests == RoutedRequests \cup TenantRequests

(***************************************************************************)
(* Actions                                                                 *)
(***************************************************************************)
NoRequest == Request("", <<>>, <<>>, <<>>, <<>>, <<>>, NoBody)

Init ==
  /\ labelLocation \in {"header", "query"}
  /\ pc = "idle"
  /\ req = NoRequest
  /\ w = NoOutcome
  /\ upstream = <<>>
  /\ client = 0

\* the server accepts a request and calls the handler
Accept ==
  /\ pc = "idle"
  /\ \E r \in Requests : req' = r
  /\ pc' = "serving"
  /\ UNCHANGED <<labelLocation, w, upstream, client>>

\* routes.ServeHTTP runs to its return; what it handed to the reverse proxy
\* has gone upstream
ServeHTTP ==
  /\ pc = "serving"
  /\ \E up \in UpstreamStatuses :
       LET o == routesServeHTTP(labelLocation, req, up)
       IN /\ w' = o
          /\ upstream' = o.fwd
  /\ pc' = "written"
  /\ UNCHANGED <<labelLocation, req, client>>

\* the server finishes the response: a handler that wrote nothing has
\* answered 200, a handler that panicked has its connection closed (0)
finishRequest ==
  /\ pc = "written"
  /\ client' = IF w.panic THEN 0
               ELSE IF w.status = 0 THEN StatusOK ELSE w.status
  /\ pc' = "finished"
  /\ UNCHANGED <<labelLocation, req, w, upstream>>

Next == Accept \/ ServeHTTP \/ finishRequest

Spec == Init /\ [][Next]_vars

(***************************************************************************)
(* Properties                                                              *)
(***************************************************************************)
\* ServeHTTP has returned
Served == pc \in {"written", "finished"}
\* the response has reached the client
Finished == pc = "finished"

\* the tenant identifier is absent or empty in the configured location
MissingTenant ==
  LET values == IF labelLocation = "header" THEN req.header ELSE req.url.label
  IN values = <<>> \/ values[1] = <<>>

\* the tenant values of the request and the matcher they call for
TenantValues == Split(lvalueOf(labelLocation, req), ",")
TenantMatcher == createLabelMatcher(<<TenantValues>>, Label).m

\* every selector of the text carries the matcher m
Carries(text, m) == \A sel \in Selectors(text.src) : m \in Range(sel.ms)

\* the expression without its matchers on the tenant label
RECURSIVE Unscoped(_)
Unscoped(expr) ==
  [expr EXCEPT
     !.ms = SelectSeq(expr.ms, LAMBDA m : m.Name # Label),
     !.args = [i \in 1..Len(expr.args) |-> Unscoped(expr.args[i])]]

\* the text is the printed form of the client's text t enforced with m
EnforcedFrom(text, t, m) ==
  /\ text = String(EnforceNode(ParseExpr(t).expr, m).expr)
  /\ text.canon
  /\ Carries(text, m)
  /\ Unscoped(text.src) = Unscoped(t.src)

\* the client's text does not parse, or a selector of it conflicts with m
Rejected(t, m) ==
  \/ ParseExpr(t).err
  \/ EnforceNode(ParseExpr(t).expr, m).err

\* the pattern of the routing table the path falls under, if any
Registered(path, pattern) ==
  /\ pattern \in Patterns
  /\ \/ path = pattern
     \/ /\ IsTree(pattern)
        /\ Len(path) >= Len(pattern)
        /\ \A i \in 1..(Len(pattern) - 1) : path[i] = pattern[i]
\* the methods the routing table lists for a pattern
Listed(pattern) ==
  IF pattern \in {Query, QueryRange, Series, Silences, SilencesTree}
    THEN {"GET", "POST"}
  ELSE IF pattern = SilenceTree THEN {"DELETE"}
  ELSE {"GET"}
InTable(path, method) ==
  \E pattern \in Patterns :
    Registered(path, pattern) /\ method \in Listed(pattern)

(* C1: a request whose tenant identifier is absent or empty in the         *)
(* configured location is answered 400 with a message naming the label,    *)
(* whatever its path and method; no handler of the routing table runs and  *)
(* nothing is forwarded upstream.                                          *)
Thm_C1 ==
  (Served /\ MissingTenant) =>
    /\ w.status = StatusBadRequest
    /\ w.naming = Label
    /\ w.handler = ""
    /\ upstream = <<>>
    /\ Finished => client = StatusBadRequest

Wit_C1 ==
  /\ Finished /\ MissingTenant
  /\ req.path = <<"other">> /\ req.method = "DELETE"
  /\ client = StatusBadRequest

(* C2: a request to /api/v1/query or /api/v1/query_range that is forwarded *)
(* carries as its only query URL parameter the printed form of the         *)
(* client's parsed query enforced with the tenant matcher: every selector  *)
(* carries the matcher, and the client's own text is not forwarded.        *)
Thm_C2 ==
  (Served /\ req.path \in {Query, QueryRange} /\ upstream # <<>>) =>
    LET f == upstream[1]
    IN /\ Len(f.url.query) = 1
       /\ EnforcedFrom(f.url.query[1], FormValue(Form(req).query),
                       TenantMatcher)
       /\ f.body.query = <<>>

Wit_C2 ==
  /\ Finished /\ req.path = QueryRange /\ req.method = "POST"
  /\ req.body.query # <<>> /\ req.url.query # <<>>
  /\ req.body.query # req.url.query
  /\ upstream # <<>>
  /\ Cardinality(Selectors(upstream[1].url.query[1].src)) = 2
  /\ Len(TenantValues) = 2

(* C3: when the query of /api/v1/query or /api/v1/query_range, or a        *)
(* match[] value of /api/v1/series, fails to parse or to be enforced, the  *)
(* client receives an error status and nothing is forwarded upstream.      *)
Cex_C3 ==
  (/\ Finished /\ ~MissingTenant
   /\ \/ /\ w.handler = "query"
         /\ Rejected(FormValue(Form(req).query), TenantMatcher)
      \/ /\ w.handler = "series"
         /\ \E i \in 1..Len(Form(req).match) :
              Rejected(Form(req).match[i], TenantMatcher)) =>
    /\ client >= 400
    /\ upstream = <<>>

(* C4: a /api/v1/series request whose match[] values all parse and enforce *)
(* is forwarded with exactly as many match[] values, the i-th being the    *)
(* enforced printed form of the client's i-th; none of the client's        *)
(* originals is left. Without match[] it is forwarded with no match[].     *)
Thm_C4 ==
  LET ms == Form(req).match
  IN (/\ Served /\ w.handler = "series"
      /\ \A i \in 1..Len(ms) : ~Rejected(ms[i], TenantMatcher)) =>
       /\ Len(upstream) = 1
       /\ Len(upstream[1].url.match) = Len(ms)
       /\ \A i \in 1..Len(ms) :
            EnforcedFrom(upstream[1].url.match[i], ms[i], TenantMatcher)
       /\ upstream[1].body.match = <<>>

Wit_C4 ==
  /\ Finished /\ w.handler = "series"
  /\ req.method = "POST"
  /\ Len(req.body.match) = 1 /\ Len(req.url.match) = 1
  /\ req.body.match # req.url.match
  /\ upstream # <<>>
  /\ Len(upstream[1].url.match) = 2

(* C5: every GET /federate request with a tenant value is forwarded with   *)
(* exactly one match[] value, the tenant matcher alone in braces, whatever *)
(* match[] values the client supplied.                                     *)
Thm_C5 ==
  (/\ Served /\ ~MissingTenant
   /\ req.path = Federate /\ req.method = "GET") =>
    /\ Len(upstream) = 1
    /\ Len(upstream[1].url.match) = 1
    /\ upstream[1].url.match[1].src = Sel("", <<TenantMatcher>>)
    /\ upstream[1].url.match[1].canon

Wit_C5 ==
  /\ Finished /\ req.path = Federate /\ req.method = "GET"
  /\ Len(req.url.match) = 2
  /\ upstream # <<>>

(* C6: the matcher built from the tenant values V is named by the          *)
(* configured label; it is an Equal matcher on V[1] when V has one value   *)
(* and a Regexp matcher on "^(?:" V[1] "|" ... "|" V[n] ")$" otherwise.    *)
Thm_C6 ==
  (Served /\ w.handler = "federate" /\ upstream # <<>>) =>
    LET m == upstream[1].url.match[1].src.ms[1]
        V == w.ctx[1]
    IN /\ m.Name = Label
       /\ Len(V) = 1 => (m.Type = MatchEqual /\ m.Value = V[1])
       /\ Len(V) > 1 =>
            /\ m.Type = MatchRegexp
            /\ m.Value = <<"^", "(", "?", ":">> \o Join(V, "|") \o <<")", "$">>

Wit_C6 ==
  /\ Finished /\ w.handler = "federate" /\ upstream # <<>>
  /\ w.ctx = << <<(<<"a">>), (<<"b">>)>> >>
  /\ upstream[1].url.match[1].src.ms[1].Type = MatchRegexp

(* C7: a forwarded request no longer carries the tenant identifier in the  *)
(* configured location: neither the query parameter named by the label     *)
(* nor, in header configuration, the header named by the label.            *)
Cex_C7 ==
  upstream # <<>> =>
    /\ upstream[1].url.label = <<>>
    /\ labelLocation = "header" => upstream[1].header = <<>>

(* C8 as stated: with a tenant value, a handler runs only for a (path,     *)
(* method) pair of the routing table, and every other request gets 404     *)
(* with nothing forwarded.                                                 *)
Cex_C8 ==
  (Finished /\ ~MissingTenant) =>
    /\ w.handler # "" => InTable(req.path, req.method)
    /\ ~InTable(req.path, req.method) =>
         (client = StatusNotFound /\ upstream = <<>>)

\* the paths the mux redirects instead of routing: a path with an empty
\* segment before its end, or a subtree root without its trailing slash
Redirected(path) ==
  \/ \E i \in 1..(Len(path) - 1) : path[i] = ""
  \/ path \notin Patterns /\ Append(path, "") \in Patterns

(* C8: with a tenant value, a handler runs (and the request can be         *)
(* forwarded) only for a (path, method) pair of the routing table; every   *)
(* other request has nothing forwarded and gets 404, or 301 when the mux   *)
(* redirects its path.                                                     *)
Thm_C8 ==
  (Finished /\ ~MissingTenant) =>
    /\ w.handler # "" => (InTable(req.path, req.method) /\ ~Redirected(req.path))
    /\ upstream # <<>> => w.handler # ""
    /\ ~InTable(req.path, req.method) =>
         /\ upstream = <<>>
         /\ client = IF Redirected(req.path) THEN StatusMovedPermanently
                     ELSE StatusNotFound

Wit_C8 ==
  /\ Finished /\ ~MissingTenant
  /\ req.path = Series /\ req.method = "DELETE"
  /\ client = StatusNotFound /\ upstream = <<>>

\* the label values a matcher is tried on
Probes == StringsUpTo(Alphabet \ {","}, 2)

(* C9: the matcher built from the tenant values V matches a label value x  *)
(* exactly when x is one of the values of V.                               *)
Cex_C9 ==
  (Served /\ w.handler = "federate" /\ upstream # <<>>) =>
    LET m == upstream[1].url.match[1].src.ms[1]
    IN \A x \in Probes : Matches(m, x) <=> x \in Range(w.ctx[1])

(* C10: every request dispatched to the router carries as its tenant       *)
(* context the raw identifier split on "," (a non-empty sequence, empty    *)
(* segments kept), so no handler panics on the context.                    *)
Thm_C10 ==
  (Served /\ ~MissingTenant) =>
    /\ w.ctx # <<>>
    /\ Len(w.ctx[1]) >= 1
    /\ \A i \in 1..Len(w.ctx[1]) : "," \notin Range(w.ctx[1][i])
    /\ Join(w.ctx[1], ",") = lvalueOf(labelLocation, req)
    /\ ~w.panic

Wit_C10 ==
  /\ Finished /\ w.handler = "query" /\ upstream # <<>>
  /\ w.ctx = << <<(<<>>), (<<>>)>> >>

====
